---- MODULE Spec2Model ----
(***************************************************************************)
(* The cookbook of src/backend/py_template/devdonalds.py: the registry     *)
(* `cookbook`, the memo table `recipe_ingredient_cache`, and the three     *)
(* request handlers create_entry, summary and clear.  The first part takes *)
(* each handler as one atomic step; the last part runs the handlers        *)
(* statement by statement in the threads of the server (`threads`).        *)
(***************************************************************************)
EXTENDS Integers, Sequences, FiniteSets, TLC

\* ---------------------------------------------------------------- bounds
MaxQty == 1      \* valid quantities are 0..MaxQty
MaxCook == 1     \* valid cook times are 0..MaxCook
MaxEdges == 3    \* required items the cookbook of a resolution run holds in all
MaxItems == 2    \* longest requiredItems list a creation run sends

Names == {"a", "b", "c"}          \* entry names of the resolution runs
EntryNames == {"a", "b", "c"}     \* entry names of the creation runs
EntryItemNames == {"a", "b"}      \* item names of the creation runs
EntryQuantities == {-1, 0}        \* quantities of the creation runs
EntryCookTimes == {-1, 0}         \* cook times of the creation runs
Types == {"recipe", "ingredient", "sauce"}

\* ------------------------------------------------ responses of the code
OK == 200
BadRequest == 400
ServerError == 500

MsgUnique == "name of the entry must be unique"
MsgOneElement == "can only have one element per name"
MsgQuantity == "invalid quantity"
MsgCookTime == "invalid cook time"
MsgType == "invalid type"
MsgRecipeAdded == "recipe added"
MsgIngredientAdded == "ingredient added"
MsgCircular == "ciruclar dependencies of recipes"
MsgNoItem == "item does not exist in cookbook"
MsgNotFound == "name not found in cook book"
MsgNotRecipe == "type is not a recipe"
MsgCleared == "clear cookbook success"
MsgUnbound == "UnboundLocalError: item_name"

\* --------------------------------------------------------------- helpers
EmptyMap == [k \in {} |-> 0]

Put(m, k, v) == [x \in (DOMAIN m) \cup {k} |-> IF x = k THEN v ELSE m[x]]

RequiredItem(n, q) == [name |-> n, quantity |-> q]

Recipe(n, items) == [kind |-> "Recipe", name |-> n, required_items |-> items]

Ingredient(n, t) == [kind |-> "Ingredient", name |-> n, cook_time |-> t]

\* cache_keys[n] is the order in which the keys of the dict
\* recipe_ingredient_cache[n] were inserted (the order its items() follows)
VARIABLES cookbook, recipe_ingredient_cache, cache_keys, last, threads

vars == <<cookbook, recipe_ingredient_cache, cache_keys, last, threads>>

NoData == [requiredItems |-> <<>>, cookTime |-> 0]

Response(op, type, name, data, status, content) ==
    [op |-> op, type |-> type, name |-> name, data |-> data,
     status |-> status, content |-> content,
     curr_path |-> {}, calls |-> 0, visits |-> 0,
     dropped |-> [entries |-> {}, cached |-> {}]]

\* the request threads of the server
Handlers == {1, 2}

\* a thread that serves no request: `pc` is the line it is about to run,
\* `stack` the frames of recursive_summary (innermost last), `curr_path`
\* the set of line 199, `ingredient_freq` the table of line 206 and `keys`
\* the keys the loop of line 211 has still to visit, in insertion order
Idle ==
    [op |-> "idle", pc |-> "", type |-> "", name |-> "", data |-> NoData,
     stack |-> <<>>, curr_path |-> {}, ingredient_freq |-> EmptyMap,
     keys |-> <<>>, cook_time |-> 0]

Init ==
    /\ cookbook = EmptyMap
    /\ recipe_ingredient_cache = EmptyMap
    /\ cache_keys = EmptyMap
    /\ last = Response("init", "", "", NoData, OK, "")
    /\ threads = [t \in Handlers |-> Idle]

\* ---------------------------------------------------------- create_entry
\* The loop of create_receipe from item i on: `seen` is item_names, `acc`
\* is required_items, `prev` is the loop variable item_name ("" = unbound).
RECURSIVE create_receipe_loop(_, _, _, _, _)
RECURSIVE create_receipe_quantity_first(_, _, _, _, _)
\* the loop with the quantity check ahead of the repeated-name check
create_receipe_quantity_first(items, i, seen, acc, prev) ==
    IF i > Len(items)
    THEN [status |-> OK, content |-> MsgRecipeAdded, required_items |-> acc,
          item_name |-> prev, bound |-> i > 1]
    ELSE IF items[i].quantity < 0
    THEN [status |-> BadRequest, content |-> MsgQuantity]
    ELSE IF items[i].name \in seen
    THEN [status |-> BadRequest, content |-> MsgOneElement]
    ELSE create_receipe_quantity_first(items, i + 1, seen \cup {items[i].name},
             Append(acc, RequiredItem(items[i].name, items[i].quantity)),
             items[i].name)

create_receipe_loop(items, i, seen, acc, prev) ==
    IF i > Len(items)
    THEN [status |-> OK, content |-> MsgRecipeAdded, required_items |-> acc,
          item_name |-> prev, bound |-> i > 1]
    ELSE IF items[i].name \in seen
    THEN [status |-> BadRequest, content |-> MsgOneElement]
    ELSE IF items[i].quantity < 0
    THEN [status |-> BadRequest, content |-> MsgQuantity]
    ELSE create_receipe_loop(items, i + 1, seen \cup {items[i].name},
             Append(acc, RequiredItem(items[i].name, items[i].quantity)),
             items[i].name)

create_receipe(data, name) ==
    LET r == create_receipe_loop(data.requiredItems, 1, {}, <<>>, "")
    IN  IF r.status # OK
        THEN [status |-> r.status, content |-> r.content, cookbook |-> cookbook]
        ELSE IF ~r.bound
        THEN [status |-> ServerError, content |-> MsgUnbound, cookbook |-> cookbook]
        ELSE [status |-> OK, content |-> MsgRecipeAdded,
              cookbook |-> Put(cookbook, name, Recipe(r.item_name, r.required_items))]

create_ingredient(data, name) ==
    IF data.cookTime < 0
    THEN [status |-> BadRequest, content |-> MsgCookTime, cookbook |-> cookbook]
    ELSE [status |-> OK, content |-> MsgIngredientAdded,
          cookbook |-> Put(cookbook, name, Ingredient(name, data.cookTime))]

\* a uniqueness check that only looks at entries of the requested type
create_entry_per_type(type, name, data) ==
    IF /\ name \in DOMAIN cookbook
       /\ cookbook[name].kind = (IF type = "recipe" THEN "Recipe" ELSE "Ingredient")
    THEN [status |-> BadRequest, content |-> MsgUnique, cookbook |-> cookbook]
    ELSE IF type = "recipe" THEN create_receipe(data, name)
    ELSE IF type = "ingredient" THEN create_ingredient(data, name)
    ELSE [status |-> BadRequest, content |-> MsgType, cookbook |-> cookbook]

create_entry(type, name, data) ==
    IF name \in DOMAIN cookbook
    THEN [status |-> BadRequest, content |-> MsgUnique, cookbook |-> cookbook]
    ELSE IF type = "recipe" THEN create_receipe(data, name)
    ELSE IF type = "ingredient" THEN create_ingredient(data, name)
    ELSE [status |-> BadRequest, content |-> MsgType, cookbook |-> cookbook]

\* a creation that throws the memo table away
CreateEntryInvalidates(type, name, data) ==
    LET r == create_entry(type, name, data)
    IN  /\ cookbook' = r.cookbook
        /\ last' = Response("create", type, name, data, r.status, r.content)
        /\ recipe_ingredient_cache' = EmptyMap
        /\ cache_keys' = EmptyMap
        /\ UNCHANGED threads

CreateEntry(type, name, data) ==
    LET r == create_entry(type, name, data)
    IN  /\ cookbook' = r.cookbook
        /\ last' = Response("create", type, name, data, r.status, r.content)
        /\ UNCHANGED <<recipe_ingredient_cache, cache_keys, threads>>

\* ---------------------------------------------------------------- clear
\* what a clear throws away (observation only)
Dropped == [entries |-> DOMAIN cookbook, cached |-> DOMAIN recipe_ingredient_cache]

\* a clear that forgets the memo table
ClearCookbookOnly ==
    /\ cookbook' = EmptyMap
    /\ last' = [Response("clear", "", "", NoData, OK, MsgCleared)
                  EXCEPT !.dropped = Dropped]
    /\ UNCHANGED <<recipe_ingredient_cache, cache_keys, threads>>

Clear ==
    /\ cookbook' = EmptyMap
    /\ recipe_ingredient_cache' = EmptyMap
    /\ cache_keys' = EmptyMap
    /\ last' = [Response("clear", "", "", NoData, OK, MsgCleared)
                  EXCEPT !.dropped = Dropped]
    /\ UNCHANGED threads

\* ---------------------------------------------------- recursive_summary
\* insertion order after line 161: a new key goes last, a key already in
\* the table keeps its place
KeysWith(keys, k) == IF \E j \in 1..Len(keys) : keys[j] = k THEN keys ELSE Append(keys, k)

\* insertion order after lines 176-181: the keys of the child the parent
\* lacks go last, in the child's order
RECURSIVE KeysMerged(_, _)
KeysMerged(keys, child_keys) ==
    IF Len(child_keys) = 0 THEN keys
    ELSE KeysMerged(KeysWith(keys, Head(child_keys)), Tail(child_keys))

\* The resolver's mutable surroundings: the memo table, the caller's
\* curr_path set, the insertion order of the keys of every table (the
\* cached ones and the ones being built), and two counters that only
\* observe the run (number of recursive_summary calls, number of required
\* items looked at).
Run(cache, path) ==
    [cache |-> cache, curr_path |-> path, calls |-> 0, visits |-> 0,
     keys |-> [n \in DOMAIN cache |-> cache_keys[n]]]

\* lines 176-181: fold item.quantity * child into the parent's table
Aggregate(ingredient_freq, quantity, child_recipe) ==
    [k \in (DOMAIN ingredient_freq) \cup (DOMAIN child_recipe) |->
        IF k \notin DOMAIN child_recipe THEN ingredient_freq[k]
        ELSE IF k \in DOMAIN ingredient_freq
             THEN ingredient_freq[k] + quantity * child_recipe[k]
             ELSE quantity * child_recipe[k]]

\* line 161: an ingredient item stores its quantity under its name
SetIngredient(ingredient_freq, item) ==
    Put(ingredient_freq, item.name, item.quantity)

\* a resolver that never finds anything in the memo table
NeverCached(name, run) == FALSE

\* line 143: the memo lookup
Cached(name, run) == name \in DOMAIN run.cache

\* line 146: the directed-cycle check on the current path
OnPath(name, run) == name \in run.curr_path

\* an unknown item that leaves the partial table in the cache
NoItemKeepsPartial(name, ingredient_freq, run) ==
    [status |-> BadRequest, content |-> MsgNoItem,
     run |-> [run EXCEPT !.cache = Put(@, name, ingredient_freq)]]

\* lines 156-157: the early return on an item that is in no cookbook entry
NoItemFailure(name, ingredient_freq, run) ==
    [status |-> BadRequest, content |-> MsgNoItem, run |-> run]

\* a revisited name that counts as a recipe without ingredients
CircularAsEmpty(name, run) ==
    [status |-> OK, content |-> EmptyMap, run |-> run]

\* a revisited name that is left in the memo table without ingredients
CircularCachesEmpty(name, run) ==
    [status |-> BadRequest, content |-> MsgCircular,
     run |-> [run EXCEPT !.cache = Put(@, name, EmptyMap)]]

\* lines 146-147: the early return on a name already on the path
CircularFailure(name, run) ==
    [status |-> BadRequest, content |-> MsgCircular, run |-> run]

RECURSIVE recursive_summary(_, _)
RECURSIVE required_items_loop(_, _, _, _)

\* a resolver that takes every name it has resolved before for a cycle
recursive_summary_visited(name, run) ==
    LET run1 == [run EXCEPT !.calls = @ + 1]
    IN  IF OnPath(name, run) \/ (run.calls > 0 /\ Cached(name, run))
        THEN CircularFailure(name, run1)
        ELSE IF Cached(name, run)
        THEN [status |-> OK, content |-> run.cache[name], run |-> run1]
        ELSE required_items_loop(name, 1, EmptyMap,
                 [run1 EXCEPT !.curr_path = @ \cup {name},
                              !.keys = Put(@, name, <<>>)])

\* lines 154-185: the for loop from item i on, then the commit to the cache
required_items_loop(name, i, ingredient_freq, run) ==
    LET items == cookbook[name].required_items
    IN  IF i > Len(items)
        THEN [status |-> OK, content |-> ingredient_freq,
              run |-> [run EXCEPT !.cache = Put(@, name, ingredient_freq),
                                  !.curr_path = @ \ {name}]]
        ELSE LET item == items[i]
                 run1 == [run EXCEPT !.visits = @ + 1]
             IN  IF item.name \notin DOMAIN cookbook
                 THEN NoItemFailure(name, ingredient_freq, run1)
                 ELSE IF cookbook[item.name].kind = "Ingredient"
                 THEN required_items_loop(name, i + 1,
                          SetIngredient(ingredient_freq, item),
                          [run1 EXCEPT !.keys[name] = KeysWith(@, item.name)])
                 ELSE LET r == recursive_summary(item.name, run1)
                      IN  IF r.status # OK
                          THEN r
                          ELSE required_items_loop(name, i + 1,
                                   Aggregate(ingredient_freq, item.quantity, r.content),
                                   [r.run EXCEPT
                                       !.keys[name] = KeysMerged(@, r.run.keys[item.name])])

\* lines 141-151
recursive_summary(name, run) ==
    LET run1 == [run EXCEPT !.calls = @ + 1]
    IN  IF Cached(name, run)
        THEN [status |-> OK, content |-> run.cache[name], run |-> run1]
        ELSE IF OnPath(name, run)
        THEN CircularFailure(name, run1)
        ELSE required_items_loop(name, 1, EmptyMap,
                 [run1 EXCEPT !.curr_path = @ \cup {name},
                              !.keys = Put(@, name, <<>>)])

\* ---------------------------------------------------------------- summary
\* a cook time that forgets the quantity
CostNoQuantity(k, v) == cookbook[k].cook_time

\* line 212: what one (k, v) pair adds to cook_time
Cost(k, v) == cookbook[k].cook_time * v

RECURSIVE CookTimeOver(_, _)
\* lines 210-212: cook_time += cookbook[k].cook_time * v, over the keys in ks
CookTimeOver(ingredient_freq, ks) ==
    IF ks = {} THEN 0
    ELSE LET k == CHOOSE x \in ks : TRUE
         IN  Cost(k, ingredient_freq[k])
             + CookTimeOver(ingredient_freq, ks \ {k})

\* a lookup that reports every non-recipe as missing
summary_one_check(name) ==
    LET run0 == Run(recipe_ingredient_cache, {})
    IN  IF name \notin DOMAIN cookbook \/ cookbook[name].kind # "Recipe"
        THEN [status |-> BadRequest, content |-> MsgNotFound, run |-> run0]
        ELSE LET r == recursive_summary(name, run0)
             IN  IF r.status # OK
                 THEN r
                 ELSE [status |-> OK,
                       content |-> [name |-> name,
                                    cookTime |-> CookTimeOver(r.content, DOMAIN r.content),
                                    ingredients |-> r.content],
                       run |-> r.run]

summary(name) ==
    LET run0 == Run(recipe_ingredient_cache, {})
    IN  IF name \notin DOMAIN cookbook
        THEN [status |-> BadRequest, content |-> MsgNotFound, run |-> run0]
        ELSE IF cookbook[name].kind # "Recipe"
        THEN [status |-> BadRequest, content |-> MsgNotRecipe, run |-> run0]
        ELSE LET r == recursive_summary(name, run0)
             IN  IF r.status # OK
                 THEN r
                 ELSE [status |-> OK,
                       content |-> [name |-> name,
                                    cookTime |-> CookTimeOver(r.content, DOMAIN r.content),
                                    ingredients |-> r.content],
                       run |-> r.run]

Summary(name) ==
    LET r == summary(name)
    IN  /\ recipe_ingredient_cache' = r.run.cache
        /\ cache_keys' = [n \in DOMAIN r.run.cache |-> r.run.keys[n]]
        /\ last' = [Response("summary", "", name, NoData, r.status, r.content)
                      EXCEPT !.curr_path = r.run.curr_path,
                             !.calls = r.run.calls,
                             !.visits = r.run.visits]
        /\ UNCHANGED <<cookbook, threads>>

\* ------------------------------------------------------------- requests
ItemSeqs(names, qtys, longest) ==
    UNION {[1..n -> [name : names, quantity : qtys]] : n \in 0..longest}

Distinct(items) ==
    \A i, j \in 1..Len(items) : items[i].name = items[j].name => i = j

RecipeData(items) == [requiredItems |-> items, cookTime |-> 0]

IngredientData(t) == [requiredItems |-> <<>>, cookTime |-> t]

\* every payload a client may send for the given type
DataOf(type, names) ==
    IF type = "recipe"
    THEN {RecipeData(s) : s \in ItemSeqs(names, EntryQuantities, MaxItems)}
    ELSE IF type = "ingredient" THEN {IngredientData(t) : t \in EntryCookTimes}
    ELSE {NoData}

Min(x, y) == IF x <= y THEN x ELSE y

\* the payloads create_entry accepts, with at most `room` required items
AcceptedData(type, names, room) ==
    IF type = "recipe"
    THEN {RecipeData(s) :
             s \in {x \in ItemSeqs(names, 0..MaxQty, Min(room, Cardinality(names))) :
                        Len(x) > 0 /\ Distinct(x)}}
    ELSE {IngredientData(t) : t \in 0..MaxCook}

\* -------------------------------------------------------- specifications
RECURSIVE EdgesOver(_)
\* number of required items held by the entries named in ns
EdgesOver(ns) ==
    IF ns = {} THEN 0
    ELSE LET n == CHOOSE x \in ns : TRUE
         IN  (IF cookbook[n].kind = "Recipe" THEN Len(cookbook[n].required_items) ELSE 0)
             + EdgesOver(ns \ {n})

\* Resolution runs: clients add well-formed entries under fresh names while
\* the cookbook holds at most MaxEdges required items, query any name and
\* clear.
AddEntry ==
    \E type \in {"recipe", "ingredient"}, name \in Names \ DOMAIN cookbook :
        \E data \in AcceptedData(type, Names, MaxEdges - EdgesOver(DOMAIN cookbook)) :
            CreateEntry(type, name, data)

GetSummary == \E name \in Names : Summary(name)

Next == AddEntry \/ GetSummary \/ Clear

Spec == Init /\ [][Next]_vars

\* Creation runs: clients send any request, accepted or not, with required
\* items taken from fewer names.
PostEntry ==
    \E type \in Types, name \in EntryNames :
        \E data \in DataOf(type, EntryItemNames) : CreateEntry(type, name, data)

GetEntrySummary == \E name \in EntryNames : Summary(name)

EntryNext == PostEntry \/ GetEntrySummary \/ Clear

EntrySpec == Init /\ [][EntryNext]_vars

\* ================================================================ claims
\* The dependency graph of the registry, as the claims speak of it.
IsRecipe(n) == n \in DOMAIN cookbook /\ cookbook[n].kind = "Recipe"

IsIngredient(n) == n \in DOMAIN cookbook /\ cookbook[n].kind = "Ingredient"

ItemsOf(n) == IF IsRecipe(n) THEN cookbook[n].required_items ELSE <<>>

Children(n) == {ItemsOf(n)[j].name : j \in 1..Len(ItemsOf(n))}

RECURSIVE Closure(_)
Closure(S) ==
    LET T == S \cup UNION {Children(n) : n \in S}
    IN  IF T = S THEN S ELSE Closure(T)

\* every name reachable from n along one or more required-item edges
Below(n) == Closure(Children(n))

DependsOnItself(n) == IsRecipe(n) /\ n \in Below(n)

AllExist(n) == Below(n) \subseteq DOMAIN cookbook

NoCycleFrom(n) == \A m \in {n} \cup Below(n) : ~DependsOnItself(m)

HasMissingItem(n) == \E m \in Children(n) : m \notin DOMAIN cookbook

\* sum over all dependency paths from recipe n to ingredient i of the
\* product of the quantities along the path (n well founded)
RECURSIVE PathSum(_, _)
RECURSIVE ItemsSum(_, _, _)
ItemsSum(n, j, i) ==
    IF j > Len(ItemsOf(n)) THEN 0
    ELSE LET it == ItemsOf(n)[j]
         IN  it.quantity * (IF it.name = i THEN 1
                            ELSE IF IsRecipe(it.name) THEN PathSum(it.name, i)
                            ELSE 0)
             + ItemsSum(n, j + 1, i)

PathSum(n, i) == ItemsSum(n, 1, i)

PathSums(n) == [i \in {m \in Below(n) : IsIngredient(m)} |-> PathSum(n, i)]

Summarised == last.op = "summary"

Succeeded == last.status = OK

\* C1: for a recipe R whose reachable names all exist and none of whose
\* reachable recipes depends on itself, getSummary(R) succeeds and lists for
\* each base ingredient the sum over all paths of the product of quantities.
C1_PathSums ==
    (Summarised /\ IsRecipe(last.name) /\ AllExist(last.name) /\ NoCycleFrom(last.name))
        => (Succeeded /\ last.content.ingredients = PathSums(last.name))

\* C2: a successful getSummary(R) returns name R and a cookTime equal to the
\* sum over the returned (ingredient, quantity) pairs of quantity times the
\* ingredient's cook time stored in the registry.
RECURSIVE WeightedCookTime(_, _)
WeightedCookTime(pairs, ks) ==
    IF ks = {} THEN 0
    ELSE LET k == CHOOSE x \in ks : TRUE
         IN  pairs[k] * cookbook[k].cook_time + WeightedCookTime(pairs, ks \ {k})

C2_CookTime ==
    (Summarised /\ Succeeded)
        => /\ last.content.name = last.name
           /\ \A k \in DOMAIN last.content.ingredients : IsIngredient(k)
           /\ last.content.cookTime =
                  WeightedCookTime(last.content.ingredients,
                                   DOMAIN last.content.ingredients)

C2_Witness ==
    /\ Summarised /\ Succeeded
    /\ Cardinality(DOMAIN last.content.ingredients) >= 2
    /\ last.content.cookTime >= 2

Failed(message) == last.status = BadRequest /\ last.content = message

\* C3 as stated: getSummary on a recipe that depends on itself, directly or
\* transitively, fails with CircularDependency in every reachable state.
C3_CycleAlwaysCircular ==
    (Summarised /\ DependsOnItself(last.name)) => Failed(MsgCircular)

\* C3 amended: getSummary on a recipe that depends on itself always fails;
\* the failure is CircularDependency when every name reachable from the
\* recipe exists, and otherwise CircularDependency or UnknownItem, whichever
\* the traversal in declared order meets first.
C3_Circular ==
    (Summarised /\ DependsOnItself(last.name))
        => /\ Failed(MsgCircular) \/ Failed(MsgNoItem)
           /\ AllExist(last.name) => Failed(MsgCircular)

C3_Witness ==
    /\ Summarised /\ DependsOnItself(last.name) /\ Failed(MsgCircular)
    /\ recipe_ingredient_cache # EmptyMap
    /\ last.calls >= 3

NothingCachedOnPath ==
    \A n \in {last.name} \cup last.curr_path : n \notin DOMAIN recipe_ingredient_cache

\* C4 as stated: getSummary on a recipe with a required item absent from the
\* registry fails with UnknownItem, and neither the recipe nor any recipe
\* on the in-progress path at the failure is in the resolution cache.
C4_MissingAlwaysUnknown ==
    (Summarised /\ IsRecipe(last.name) /\ HasMissingItem(last.name))
        => (Failed(MsgNoItem) /\ NothingCachedOnPath)

\* C4 amended: such a getSummary always fails and caches nothing for the
\* recipe or the in-progress path; the failure is UnknownItem when no recipe
\* reachable from the recipe depends on itself, and otherwise UnknownItem or
\* CircularDependency, whichever the traversal in declared order meets first.
C4_Unknown ==
    (Summarised /\ IsRecipe(last.name) /\ HasMissingItem(last.name))
        => /\ Failed(MsgNoItem) \/ Failed(MsgCircular)
           /\ NoCycleFrom(last.name) => Failed(MsgNoItem)
           /\ NothingCachedOnPath

C4_Witness ==
    /\ Summarised /\ IsRecipe(last.name) /\ HasMissingItem(last.name)
    /\ Failed(MsgNoItem)
    /\ Cardinality(last.curr_path) >= 2

FailedWith(response, message) ==
    response.status = BadRequest /\ response.content = message

StoreUnchanged ==
    cookbook' = cookbook /\ recipe_ingredient_cache' = recipe_ingredient_cache

\* C5: createEntry with a name already in the registry is rejected with
\* DuplicateName whatever the type and payload, and the registry and the
\* resolution cache stay as they were.
C5_DuplicateName ==
    [][(last'.op = "create" /\ last'.name \in DOMAIN cookbook)
          => (FailedWith(last', MsgUnique) /\ StoreUnchanged)]_vars

C5_Witness ==
    /\ last.op = "create" /\ Failed(MsgUnique)
    /\ last.type = "ingredient" /\ IsRecipe(last.name)
    /\ last.name \in DOMAIN recipe_ingredient_cache

NonNegative(items) == \A j \in 1..Len(items) : items[j].quantity >= 0

\* C6: createEntry of type recipe under a fresh name with pairwise distinct
\* item names and non-negative quantities (the empty sequence included)
\* succeeds and stores a Recipe with exactly those items in declared order.
C6_RecipeStored ==
    [][(/\ last'.op = "create" /\ last'.type = "recipe"
        /\ last'.name \notin DOMAIN cookbook
        /\ Distinct(last'.data.requiredItems)
        /\ NonNegative(last'.data.requiredItems))
          => /\ last'.status = OK
             /\ last'.name \in DOMAIN cookbook'
             /\ cookbook'[last'.name].kind = "Recipe"
             /\ cookbook'[last'.name].required_items = last'.data.requiredItems]_vars

Repeats(items, j) == \E i \in 1..(j - 1) : items[i].name = items[j].name

Offends(items, j) == Repeats(items, j) \/ items[j].quantity < 0

\* index of the first item that repeats a name or has a negative quantity
FirstOffence(items) ==
    CHOOSE j \in 1..Len(items) :
        Offends(items, j) /\ \A i \in 1..(j - 1) : ~Offends(items, i)

\* C7 as stated: createEntry fails with InvalidField on a negative cookTime
\* or any negative quantity, with DuplicateItem on a repeated item name and
\* with InvalidType on an unknown type, each time leaving the registry and
\* the cache unchanged.
C7_EachFailure ==
    [][last'.op = "create"
          => /\ (last'.type = "ingredient" /\ last'.data.cookTime < 0)
                    => (FailedWith(last', MsgCookTime) /\ StoreUnchanged)
             /\ (last'.type = "recipe" /\ ~NonNegative(last'.data.requiredItems))
                    => (FailedWith(last', MsgQuantity) /\ StoreUnchanged)
             /\ (last'.type = "recipe" /\ ~Distinct(last'.data.requiredItems))
                    => (FailedWith(last', MsgOneElement) /\ StoreUnchanged)
             /\ (last'.type \notin {"recipe", "ingredient"})
                    => (FailedWith(last', MsgType) /\ StoreUnchanged)]_vars

\* C7 amended: for a name not yet in the registry, createEntry fails with
\* InvalidField on a negative cookTime, with InvalidType on an unknown type,
\* and for a recipe the first offending item in declared order decides:
\* DuplicateItem if it repeats an earlier name, InvalidField if it only has
\* a negative quantity.  Every failure leaves registry and cache unchanged.
C7_FirstFailure ==
    [][(last'.op = "create" /\ last'.name \notin DOMAIN cookbook)
          => /\ (last'.type = "ingredient" /\ last'.data.cookTime < 0)
                    => FailedWith(last', MsgCookTime)
             /\ (/\ last'.type = "recipe"
                 /\ \E j \in 1..Len(last'.data.requiredItems) :
                        Offends(last'.data.requiredItems, j))
                    => IF Repeats(last'.data.requiredItems,
                                  FirstOffence(last'.data.requiredItems))
                       THEN FailedWith(last', MsgOneElement)
                       ELSE FailedWith(last', MsgQuantity)
             /\ (last'.type \notin {"recipe", "ingredient"})
                    => FailedWith(last', MsgType)
             /\ last'.status # OK => StoreUnchanged]_vars

C7_Witness ==
    /\ last.op = "create" /\ last.type = "recipe" /\ Failed(MsgOneElement)
    /\ ~NonNegative(last.data.requiredItems)
    /\ last.name \notin DOMAIN cookbook
    /\ recipe_ingredient_cache # EmptyMap

\* C8: getSummary fails with NotFound on an absent name and with WrongType
\* on an ingredient, without invoking the resolver and without changing the
\* registry or the resolution cache.
C8_NotFoundWrongType ==
    [][last'.op = "summary"
          => /\ last'.name \notin DOMAIN cookbook
                    => /\ FailedWith(last', MsgNotFound)
                       /\ last'.calls = 0 /\ last'.visits = 0
                       /\ StoreUnchanged
             /\ IsIngredient(last'.name)
                    => /\ FailedWith(last', MsgNotRecipe)
                       /\ last'.calls = 0 /\ last'.visits = 0
                       /\ StoreUnchanged]_vars

C8_Witness ==
    /\ Summarised /\ Failed(MsgNotRecipe) /\ IsIngredient(last.name)
    /\ recipe_ingredient_cache # EmptyMap

\* what the resolver returns for a recipe when it starts from an empty cache
FreshResolution(name) == recursive_summary(name, Run(EmptyMap, {})).content

\* C9: clear always succeeds and leaves registry and cache empty; a
\* getSummary right after it answers NotFound for every name, the dropped
\* ones included; a second clear changes nothing; and every successful
\* getSummary, also of a recipe created again under a dropped name, returns
\* what the current definitions resolve to.
C9_Clear ==
    [][/\ last'.op = "clear"
              => /\ last'.status = OK
                 /\ cookbook' = EmptyMap
                 /\ recipe_ingredient_cache' = EmptyMap
       /\ (last.op = "clear" /\ last'.op = "summary")
              => FailedWith(last', MsgNotFound)
       /\ (last.op = "clear" /\ last'.op = "clear") => StoreUnchanged
       /\ (last'.op = "summary" /\ last'.status = OK)
              => last'.content.ingredients = FreshResolution(last'.name)]_vars

C9_Witness ==
    /\ last.op = "clear"
    /\ last.dropped.cached # {}
    /\ cookbook = EmptyMap /\ recipe_ingredient_cache = EmptyMap

RecipesFrom(n) == {n} \cup {m \in Below(n) : IsRecipe(m)}

\* C10: after a successful getSummary(R), R and every recipe reachable from
\* R are in the resolution cache; a getSummary of a cached recipe returns the
\* cached map with one resolver call and no required item looked at; and a
\* getSummary repeated right after a successful one returns the same result.
C10_Memoized ==
    [][last'.op = "summary"
          => /\ last'.status = OK
                    => RecipesFrom(last'.name) \subseteq DOMAIN recipe_ingredient_cache'
             /\ last'.name \in DOMAIN recipe_ingredient_cache
                    => /\ last'.status = OK
                       /\ last'.content.ingredients = recipe_ingredient_cache[last'.name]
                       /\ last'.calls = 1 /\ last'.visits = 0
                       /\ StoreUnchanged
             /\ (last.op = "summary" /\ last.status = OK /\ last.name = last'.name)
                    => last'.content = last.content]_vars

C10_Witness ==
    /\ Summarised /\ Succeeded
    /\ last.calls = 1 /\ last.visits = 0
    /\ RecipesFrom(last.name) # {last.name}

\* ====================================================== parse_handwriting
\* A string is a sequence of one-character strings.
MaxLen == 3      \* longest input of a parse run

Alphabet == {"a", "B", " ", "-", "_", "1"}     \* characters of the inputs

MsgInvalidName == "invalid recipe name"
MsgIndexError == "IndexError: string index out of range"

Strings == UNION {[1..n -> Alphabet] : n \in 0..MaxLen}

IsLetter(c) == c \in {"a", "b", "A", "B"}

upper(c) == IF c = "a" THEN "A" ELSE IF c = "b" THEN "B" ELSE c

lower(c) == IF c = "A" THEN "a" ELSE IF c = "B" THEN "b" ELSE c

\* the class [- _] of line 53
IsSeparator(c) == c \in {"-", " ", "_"}

\* the class [a-zA-Z_-] that line 61 keeps
IsKept(c) == IsLetter(c) \/ c \in {"_", "-"}

RECURSIVE re_split_from(_, _, _, _, _)
\* line 53, re.split(r'[- _]+', s) from position i on: `cur` is the piece
\* being read, `acc` the pieces cut so far, `in_run` whether s[i-1] was a
\* separator.  A leading or trailing run leaves an empty piece.
re_split_from(s, i, cur, acc, in_run) ==
    IF i > Len(s) THEN Append(acc, cur)
    ELSE IF IsSeparator(s[i])
    THEN IF in_run
         THEN re_split_from(s, i + 1, cur, acc, TRUE)
         ELSE re_split_from(s, i + 1, <<>>, Append(acc, cur), TRUE)
    ELSE re_split_from(s, i + 1, Append(cur, s[i]), acc, FALSE)

re_split(s) == re_split_from(s, 1, <<>>, <<>>, FALSE)

\* line 61, re.sub(r'[^a-zA-Z_-]', '', name)
re_sub(name) == SelectSeq(name, IsKept)

\* line 62 on a non-empty new_name
Capitalise(new_name) ==
    <<upper(new_name[1])>> \o [j \in 1..(Len(new_name) - 1) |-> lower(new_name[j + 1])]

\* line 65, ' '.join(updated_names)
RECURSIVE join(_)
join(names) ==
    IF Len(names) = 0 THEN <<>>
    ELSE IF Len(names) = 1 THEN names[1]
    ELSE names[1] \o <<" ">> \o join(Tail(names))

RECURSIVE updated_names_from(_, _, _)
\* lines 60-63 from original_names[i] on; indexing an empty new_name raises
updated_names_from(original_names, i, updated_names) ==
    IF i > Len(original_names) THEN [raised |-> FALSE, names |-> updated_names]
    ELSE LET new_name == re_sub(original_names[i])
         IN  IF Len(new_name) = 0
             THEN [raised |-> TRUE, names |-> updated_names]
             ELSE updated_names_from(original_names, i + 1,
                      Append(updated_names, Capitalise(new_name)))

\* lines 52-65: "none" is None, "raised" an uncaught IndexError
parse_handwriting(recipe_name) ==
    LET original_names == re_split(recipe_name)
    IN  IF Len(original_names) = 0 \/ original_names[1] = <<>>
        THEN [kind |-> "none", value |-> <<>>]
        ELSE LET r == updated_names_from(original_names, 1, <<>>)
             IN  IF r.raised
                 THEN [kind |-> "raised", value |-> <<>>]
                 ELSE [kind |-> "str", value |-> join(r.names)]

\* lines 41-48
parse(input) ==
    LET parsed_name == parse_handwriting(input)
    IN  IF parsed_name.kind = "raised"
        THEN [status |-> ServerError, content |-> MsgIndexError]
        ELSE IF parsed_name.kind = "none"
        THEN [status |-> BadRequest, content |-> MsgInvalidName]
        ELSE [status |-> OK, content |-> [msg |-> parsed_name.value]]

Parse(input) ==
    LET r == parse(input)
    IN  /\ last' = Response("parse", "", input, NoData, r.status, r.content)
        /\ UNCHANGED <<cookbook, recipe_ingredient_cache, cache_keys, threads>>

\* Parse runs: clients post any string over the alphabet.
PostParse == \E input \in Strings : Parse(input)

ParseSpec == Init /\ [][PostParse]_vars

\* The normalizer as the claims describe it: split on separator runs, strip
\* every non-letter, drop the tokens that become empty, title-case, join.
OnlyLetters(token) == SelectSeq(token, IsLetter)

NonEmpty(token) == Len(token) > 0

Survivors(x) ==
    LET pieces == re_split(x)
    IN  SelectSeq([j \in 1..Len(pieces) |-> OnlyLetters(pieces[j])], NonEmpty)

Normalized(x) ==
    LET tokens == Survivors(x)
    IN  IF Len(tokens) = 0
        THEN [status |-> BadRequest, content |-> MsgInvalidName]
        ELSE [status |-> OK,
              content |-> [msg |-> join([j \in 1..Len(tokens) |-> Capitalise(tokens[j])])]]

\* C11: normalize returns the invalid-input signal exactly when no token
\* survives, and otherwise the title-cased surviving tokens joined by one
\* space, also for inputs with leading or trailing separators or with a
\* token made only of stripped characters.
C11_Normalize ==
    last.op = "parse"
        => (last.status = Normalized(last.name).status
            /\ last.content = Normalized(last.name).content)

\* C12: for every input on which normalize does not return the
\* invalid-input signal, normalizing its result gives that result again.
C12_Idempotent ==
    (last.op = "parse" /\ ~(last.status = BadRequest))
        => /\ last.status = OK
           /\ parse_handwriting(last.content.msg) = [kind |-> "str", value |-> last.content.msg]

\* ------------------------------------------------- cache and creation
\* C14 as stated: immediately after every successful createEntry the
\* resolution cache is empty.
C14_CreateInvalidates ==
    [][(last'.op = "create" /\ last'.status = OK)
          => recipe_ingredient_cache' = EmptyMap]_vars

\* C14 amended: createEntry, successful or not, leaves the resolution cache
\* as it was; a non-empty cache becomes empty only by clear.
C14_CreateKeepsCache ==
    [][/\ last'.op = "create"
              => recipe_ingredient_cache' = recipe_ingredient_cache
       /\ (recipe_ingredient_cache # EmptyMap /\ recipe_ingredient_cache' = EmptyMap)
              => last'.op = "clear"]_vars

C14_Witness ==
    /\ last.op = "create" /\ last.status = OK
    /\ recipe_ingredient_cache # EmptyMap

\* Diamond runs: three recipe names over one ingredient name, every
\* quantity and cook time 1, so that a sub-recipe can be required along two
\* branches; at most DiamondEdges required items in all.
DiamondEdges == 4

DiamondRecipes == {"a", "b", "c"}

DiamondIngredients == {"d"}

DiamondItemNames == {"b", "c", "d"}

DiamondItems(room) ==
    {x \in ItemSeqs(DiamondItemNames, {1}, Min(room, MaxItems)) :
         Len(x) > 0 /\ Distinct(x)}

AddDiamondRecipe ==
    \E name \in DiamondRecipes \ DOMAIN cookbook :
        \E items \in DiamondItems(DiamondEdges - EdgesOver(DOMAIN cookbook)) :
            CreateEntry("recipe", name, RecipeData(items))

AddDiamondIngredient ==
    \E name \in DiamondIngredients \ DOMAIN cookbook :
        CreateEntry("ingredient", name, IngredientData(1))

GetDiamondSummary ==
    \E name \in DiamondRecipes \cup DiamondIngredients : Summary(name)

DiamondNext == AddDiamondRecipe \/ AddDiamondIngredient \/ GetDiamondSummary \/ Clear

DiamondSpec == Init /\ [][DiamondNext]_vars

\* C16: when every name reachable from R exists and no recipe reachable from
\* R depends on itself, getSummary(R) does not fail with CircularDependency
\* (it succeeds), also when a name is reached through several branches or a
\* sub-recipe was resolved and cached by an earlier getSummary.
C16_NoFalseCycle ==
    (Summarised /\ IsRecipe(last.name) /\ AllExist(last.name) /\ NoCycleFrom(last.name))
        => (~Failed(MsgCircular) /\ Succeeded)

\* the names that two different required items of n lead to
SharedBelow(n) ==
    {m \in Below(n) :
        \E i, j \in 1..Len(ItemsOf(n)) :
            /\ i # j
            /\ m \in Closure({ItemsOf(n)[i].name})
            /\ m \in Closure({ItemsOf(n)[j].name})}

\* the run of the resolver from an empty cache
FreshRun(name) == recursive_summary(name, Run(EmptyMap, {})).run

C16_Witness ==
    /\ Summarised /\ Succeeded
    /\ \E m \in SharedBelow(last.name) : IsRecipe(m)
    /\ last.calls >= 2
    /\ last.visits < FreshRun(last.name).visits

\* C18: every entry stored under key n carries the name n in its name
\* field, so no two stored entries share a name.
C18_NameIsKey ==
    /\ \A n \in DOMAIN cookbook : cookbook[n].name = n
    /\ \A n, m \in DOMAIN cookbook : cookbook[n].name = cookbook[m].name => n = m

\* what summary answers on the same cookbook from an empty cache
FreshOutcome(name) ==
    IF name \notin DOMAIN cookbook
    THEN [status |-> BadRequest, content |-> MsgNotFound]
    ELSE IF cookbook[name].kind # "Recipe"
    THEN [status |-> BadRequest, content |-> MsgNotRecipe]
    ELSE LET r == recursive_summary(name, Run(EmptyMap, {}))
         IN  IF r.status # OK
             THEN [status |-> r.status, content |-> r.content]
             ELSE [status |-> OK,
                   content |-> [name |-> name,
                                cookTime |-> WeightedCookTime(r.content, DOMAIN r.content),
                                ingredients |-> r.content]]

\* C19: under sequential use the outcome of getSummary(R), success value or
\* failure kind, is the outcome of the same call on the same registry with
\* an empty cache, though the cache is kept across createEntry.
C19_CacheTransparent ==
    Summarised
        => /\ last.status = FreshOutcome(last.name).status
           /\ last.content = FreshOutcome(last.name).content

C19_Witness ==
    /\ Summarised /\ IsRecipe(last.name)
    /\ last.status = BadRequest
    /\ last.visits < FreshRun(last.name).visits

\* ============================================== the handlers step by step
\* Each step below is one access to cookbook or recipe_ingredient_cache
\* together with the thread-local statements that follow it up to the next
\* access; the code takes no lock (line 233 starts the threaded server).
\* A path never holds a name twice, so a thread holds at most one frame per
\* name and one more; the interpreter's own limit on frames is far above it.
MsgKeyError == "KeyError"
MsgAttributeError == "AttributeError"

\* a frame of recursive_summary(name, curr_path): `items` is the list the
\* for loop of line 154 iterates, `i` the position of `item` in it, `keys`
\* the insertion order of ingredient_freq
Frame(name) ==
    [name |-> name, items |-> <<>>, i |-> 0, ingredient_freq |-> EmptyMap,
     keys |-> <<>>]

Top(th) == th.stack[Len(th.stack)]

SetTop(th, f) == [th EXCEPT !.stack[Len(th.stack)] = f]

\* where the for loop of line 154 goes on: the next item, or the commit
LoopPc(f) == IF f.i <= Len(f.items) THEN "156" ELSE "183"

\* a path that is never extended
PathKeep(curr_path, name) == curr_path

\* line 148
PathAdd(curr_path, name) == curr_path \cup {name}

\* a path that keeps the names of finished calls
PathRetain(curr_path, name) == curr_path

\* line 184
PathRemove(curr_path, name) == curr_path \ {name}

\* the handler of thread t answers and the thread is free again
Respond(t, status, content) ==
    LET th == threads[t]
    IN  /\ threads' = [threads EXCEPT ![t] = Idle]
        /\ last' = [Response(th.op, th.type, th.name, th.data, status, content)
                      EXCEPT !.curr_path = th.curr_path]

\* the thread after its innermost call returned (child_recipe, 200), a
\* table with insertion order child_keys: lines 165-181 in the caller, or
\* lines 200-209 in summary
Returned(th, child_recipe, child_keys) ==
    IF Len(th.stack) = 1
    THEN [th EXCEPT !.stack = <<>>, !.pc = "212",
                    !.ingredient_freq = child_recipe,
                    !.keys = child_keys,
                    !.cook_time = 0]
    ELSE LET caller == th.stack[Len(th.stack) - 1]
             item == caller.items[caller.i]
             f == [caller EXCEPT
                      !.ingredient_freq = Aggregate(@, item.quantity, child_recipe),
                      !.keys = KeysMerged(@, child_keys),
                      !.i = @ + 1]
         IN  [th EXCEPT !.stack = Append(SubSeq(th.stack, 1, Len(th.stack) - 2), f),
                        !.pc = LoopPc(f)]

\* ---- summary
\* lines 190-194: the request arrives and line 193 looks the name up
SummaryArrives(t, name) ==
    /\ threads[t].op = "idle"
    /\ IF name \notin DOMAIN cookbook
       THEN /\ threads' = threads
            /\ last' = Response("summary", "", name, NoData, BadRequest, MsgNotFound)
       ELSE /\ threads' = [threads EXCEPT ![t] =
                              [Idle EXCEPT !.op = "summary", !.pc = "195", !.name = name]]
            /\ UNCHANGED last
    /\ UNCHANGED <<cookbook, recipe_ingredient_cache, cache_keys>>

\* lines 195-200: the type check, then the first call of the resolver
Summary195(t) ==
    LET th == threads[t]
    IN  /\ th.op = "summary" /\ th.pc = "195"
        /\ IF th.name \notin DOMAIN cookbook
           THEN Respond(t, ServerError, MsgKeyError)
           ELSE IF cookbook[th.name].kind # "Recipe"
           THEN Respond(t, BadRequest, MsgNotRecipe)
           ELSE /\ threads' = [threads EXCEPT ![t] =
                                  [th EXCEPT !.stack = <<Frame(th.name)>>, !.pc = "143"]]
                /\ UNCHANGED last
        /\ UNCHANGED <<cookbook, recipe_ingredient_cache, cache_keys>>

\* lines 143 and 146-151: the memo test, then the path check
Resolve143(t) ==
    LET th == threads[t]
        name == Top(th).name
        run == Run(recipe_ingredient_cache, th.curr_path)
    IN  /\ th.op = "summary" /\ th.pc = "143"
        /\ IF Cached(name, run)
           THEN /\ threads' = [threads EXCEPT ![t] = [th EXCEPT !.pc = "144"]]
                /\ UNCHANGED last
           ELSE IF OnPath(name, run)
           THEN Respond(t, BadRequest, MsgCircular)
           ELSE /\ threads' = [threads EXCEPT ![t] =
                                  [th EXCEPT !.curr_path = PathAdd(@, name), !.pc = "154"]]
                /\ UNCHANGED last
        /\ UNCHANGED <<cookbook, recipe_ingredient_cache, cache_keys>>

\* line 144: the memo read and the return of the cached table
Resolve144(t) ==
    LET th == threads[t]
        name == Top(th).name
    IN  /\ th.op = "summary" /\ th.pc = "144"
        /\ IF name \notin DOMAIN recipe_ingredient_cache
           THEN Respond(t, ServerError, MsgKeyError)
           ELSE /\ threads' = [threads EXCEPT ![t] =
                                  Returned(th, recipe_ingredient_cache[name],
                                           cache_keys[name])]
                /\ UNCHANGED last
        /\ UNCHANGED <<cookbook, recipe_ingredient_cache, cache_keys>>

\* line 154: cookbook[name].required_items, read once for the whole loop
Resolve154(t) ==
    LET th == threads[t]
        name == Top(th).name
    IN  /\ th.op = "summary" /\ th.pc = "154"
        /\ IF name \notin DOMAIN cookbook
           THEN Respond(t, ServerError, MsgKeyError)
           ELSE IF cookbook[name].kind # "Recipe"
           THEN Respond(t, ServerError, MsgAttributeError)
           ELSE LET f == [Top(th) EXCEPT !.items = cookbook[name].required_items,
                                         !.i = 1]
                IN  /\ threads' = [threads EXCEPT ![t] =
                                      [SetTop(th, f) EXCEPT !.pc = LoopPc(f)]]
                    /\ UNCHANGED last
        /\ UNCHANGED <<cookbook, recipe_ingredient_cache, cache_keys>>

\* lines 156-157: is the item in the cookbook
Resolve156(t) ==
    LET th == threads[t]
        item == Top(th).items[Top(th).i]
    IN  /\ th.op = "summary" /\ th.pc = "156"
        /\ IF item.name \notin DOMAIN cookbook
           THEN Respond(t, BadRequest, MsgNoItem)
           ELSE /\ threads' = [threads EXCEPT ![t] = [th EXCEPT !.pc = "160"]]
                /\ UNCHANGED last
        /\ UNCHANGED <<cookbook, recipe_ingredient_cache, cache_keys>>

\* lines 160-165: the type of the item; an ingredient is stored, a recipe
\* is resolved by a nested call
Resolve160(t) ==
    LET th == threads[t]
        item == Top(th).items[Top(th).i]
    IN  /\ th.op = "summary" /\ th.pc = "160"
        /\ IF item.name \notin DOMAIN cookbook
           THEN Respond(t, ServerError, MsgKeyError)
           ELSE IF cookbook[item.name].kind = "Ingredient"
           THEN LET f == [Top(th) EXCEPT
                             !.ingredient_freq = SetIngredient(@, item),
                             !.keys = KeysWith(@, item.name),
                             !.i = @ + 1]
                IN  /\ threads' = [threads EXCEPT ![t] =
                                      [SetTop(th, f) EXCEPT !.pc = LoopPc(f)]]
                    /\ UNCHANGED last
           ELSE /\ threads' = [threads EXCEPT ![t] =
                                  [th EXCEPT !.stack = Append(@, Frame(item.name)),
                                             !.pc = "143"]]
                /\ UNCHANGED last
        /\ UNCHANGED <<cookbook, recipe_ingredient_cache, cache_keys>>

\* line 183: the commit of the table, a dict with its insertion order, to
\* the memo table
Resolve183(t) ==
    LET th == threads[t]
    IN  /\ th.op = "summary" /\ th.pc = "183"
        /\ recipe_ingredient_cache' =
               Put(recipe_ingredient_cache, Top(th).name, Top(th).ingredient_freq)
        /\ cache_keys' = Put(cache_keys, Top(th).name, Top(th).keys)
        /\ threads' = [threads EXCEPT ![t] = [th EXCEPT !.pc = "184"]]
        /\ UNCHANGED <<cookbook, last>>

\* lines 184-185: the name leaves the path and the call returns
Resolve184(t) ==
    LET th == threads[t]
        left == [th EXCEPT !.curr_path = PathRemove(@, Top(th).name)]
    IN  /\ th.op = "summary" /\ th.pc = "184"
        /\ threads' = [threads EXCEPT ![t] =
                           Returned(left, Top(th).ingredient_freq, Top(th).keys)]
        /\ UNCHANGED <<cookbook, recipe_ingredient_cache, cache_keys, last>>

\* lines 210-220: one round of the cook time loop, which visits the keys
\* in insertion order, or the answer after it
Summary212(t) ==
    LET th == threads[t]
    IN  /\ th.op = "summary" /\ th.pc = "212"
        /\ IF Len(th.keys) = 0
           THEN Respond(t, OK, [name |-> th.name, cookTime |-> th.cook_time,
                                ingredients |-> th.ingredient_freq])
           ELSE LET k == Head(th.keys)
                IN  IF k \notin DOMAIN cookbook
                    THEN Respond(t, ServerError, MsgKeyError)
                    ELSE IF cookbook[k].kind # "Ingredient"
                    THEN Respond(t, ServerError, MsgAttributeError)
                    ELSE /\ threads' = [threads EXCEPT ![t] =
                                [th EXCEPT !.cook_time = @ + Cost(k, th.ingredient_freq[k]),
                                           !.keys = Tail(@)]]
                         /\ UNCHANGED last
        /\ UNCHANGED <<cookbook, recipe_ingredient_cache, cache_keys>>

\* ---- create_entry
\* lines 108-113: the request arrives and line 112 looks the name up
CreateArrives(t, type, name, data) ==
    /\ threads[t].op = "idle"
    /\ IF name \in DOMAIN cookbook
       THEN /\ threads' = threads
            /\ last' = Response("create", type, name, data, BadRequest, MsgUnique)
       ELSE /\ threads' = [threads EXCEPT ![t] =
                              [Idle EXCEPT !.op = "create", !.pc = "114", !.type = type,
                                           !.name = name, !.data = data]]
            /\ UNCHANGED last
    /\ UNCHANGED <<cookbook, recipe_ingredient_cache, cache_keys>>

\* lines 114-125: create_receipe, create_ingredient or 'invalid type'; the
\* store of line 89 or 101 replaces whatever the name holds by now
Create114(t) ==
    LET th == threads[t]
        r == IF th.type = "recipe" THEN create_receipe(th.data, th.name)
             ELSE IF th.type = "ingredient" THEN create_ingredient(th.data, th.name)
             ELSE [status |-> BadRequest, content |-> MsgType, cookbook |-> cookbook]
    IN  /\ th.op = "create" /\ th.pc = "114"
        /\ cookbook' = r.cookbook
        /\ Respond(t, r.status, r.content)
        /\ UNCHANGED <<recipe_ingredient_cache, cache_keys>>

\* ---- clear
\* lines 223-224: the request arrives and the cookbook is emptied
ClearArrives(t) ==
    /\ threads[t].op = "idle"
    /\ cookbook' = EmptyMap
    /\ threads' = [threads EXCEPT ![t] = [Idle EXCEPT !.op = "clear", !.pc = "225"]]
    /\ UNCHANGED <<recipe_ingredient_cache, cache_keys, last>>

\* lines 225-226: the memo table is emptied and the handler answers
Clear225(t) ==
    /\ threads[t].op = "clear" /\ threads[t].pc = "225"
    /\ recipe_ingredient_cache' = EmptyMap
    /\ cache_keys' = EmptyMap
    /\ Respond(t, OK, MsgCleared)
    /\ UNCHANGED cookbook

\* the next step of the request thread t is serving
Continue(t) ==
    \/ Summary195(t) \/ Resolve143(t) \/ Resolve144(t) \/ Resolve154(t)
    \/ Resolve156(t) \/ Resolve160(t) \/ Resolve183(t) \/ Resolve184(t)
    \/ Summary212(t)
    \/ Create114(t)
    \/ Clear225(t)

AllIdle == \A t \in Handlers : threads[t].op = "idle"

\* Sequential runs: one thread serves one request at a time, statement by
\* statement; the cookbook holds at most MaxEdges required items.
StepNames == {"a", "b", "c"}

StepItems(room) ==
    {x \in ItemSeqs(StepNames, {1}, Min(room, MaxItems)) : Len(x) > 0 /\ Distinct(x)}

StepArrives ==
    /\ AllIdle
    /\ \/ \E name \in StepNames : SummaryArrives(1, name)
       \/ \E name \in StepNames :
              \E items \in StepItems(MaxEdges - EdgesOver(DOMAIN cookbook)) :
                  CreateArrives(1, "recipe", name, RecipeData(items))
       \/ \E name \in StepNames : CreateArrives(1, "ingredient", name, IngredientData(1))
       \/ \E name \in StepNames : CreateArrives(1, "sauce", name, NoData)
       \/ ClearArrives(1)

StepNext == StepArrives \/ Continue(1)

StepSpec == Init /\ [][StepNext]_vars

\* the thread of a synchronous handler keeps running until it answers
StepFairSpec == StepSpec /\ WF_vars(Continue(1))

\* Concurrent runs: every free thread takes a request, and the threads
\* interleave between any two steps.
ConcNames == {"a", "b"}

\* recipes of one required item
ConcItems == {<<RequiredItem(n, 1)>> : n \in ConcNames}

ConcArrives(t) ==
    \/ \E name \in ConcNames : SummaryArrives(t, name)
    \/ \E name \in ConcNames : \E items \in ConcItems :
           CreateArrives(t, "recipe", name, RecipeData(items))
    \/ \E name \in ConcNames : CreateArrives(t, "ingredient", name, IngredientData(1))
    \/ ClearArrives(t)

ConcNext == \E t \in Handlers : ConcArrives(t) \/ Continue(t)

ConcSpec == Init /\ [][ConcNext]_vars

\* ------------------------------------------- claims on the stepwise runs
Recipes == {n \in DOMAIN cookbook : IsRecipe(n)}

Resolving(t) == threads[t].op = "summary" /\ Len(threads[t].stack) > 0

\* the frames of thread t that are past line 148
Entered(t) ==
    LET th == threads[t]
    IN  IF th.pc \in {"143", "144"} THEN 1..(Len(th.stack) - 1) ELSE 1..Len(th.stack)

\* a sequential run answers what the handler taken as one step answers
StepRefinesSummary ==
    /\ (AllIdle /\ last.op = "summary")
           => /\ last.status = FreshOutcome(last.name).status
              /\ last.content = FreshOutcome(last.name).content
    /\ AllIdle
           => \A n \in DOMAIN cache_keys : cache_keys[n] = FreshRun(n).keys[n]

\* C15, its bound as stated: while a getSummary runs, the number of nested
\* recursive_summary calls never exceeds the number of recipes in the
\* registry.
C15_DepthWithinRecipes ==
    \A t \in Handlers :
        Resolving(t) => Len(threads[t].stack) <= Cardinality(Recipes)

\* the in-progress path holds exactly the names of the calls past line 148,
\* one call per name, all of them recipes of the registry
C15_PathIsStack ==
    \A t \in Handlers :
        Resolving(t)
            => /\ threads[t].curr_path = {threads[t].stack[j].name : j \in Entered(t)}
               /\ Cardinality(threads[t].curr_path) = Cardinality(Entered(t))
               /\ threads[t].curr_path \subseteq Recipes
               /\ Len(threads[t].stack) <= Cardinality(Recipes) + 1

\* a call that goes past line 148 adds its own name, which the path lacked
C15_PathGrows ==
    \A t \in Handlers :
        (threads[t].pc = "143" /\ threads'[t].pc = "154")
            => /\ Top(threads[t]).name \notin threads[t].curr_path
               /\ threads'[t].curr_path = threads[t].curr_path \cup {Top(threads[t]).name}

\* C15 amended: every getSummary call terminates, on cyclic registries and
\* on registries with missing names too; each call that goes past the cycle
\* check adds one new name to the in-progress path, the path holds only
\* recipes of the registry, and the number of nested calls never exceeds the
\* number of recipes plus one (the innermost call may be the one that
\* returns at once from the cache or with CircularDependency).
C15_Terminates ==
    /\ []C15_PathIsStack
    /\ [][C15_PathGrows]_vars
    /\ (~AllIdle) ~> AllIdle

C15_Witness ==
    /\ Resolving(1)
    /\ threads[1].pc = "143"
    /\ Top(threads[1]).name \in threads[1].curr_path
    /\ Len(threads[1].stack) = Cardinality(Recipes) + 1
    /\ Len(threads[1].stack) >= 3

CachedOnPath(t) == threads[t].curr_path \cap DOMAIN recipe_ingredient_cache

\* C17 as stated: in every state of a resolution no recipe name is both in
\* the resolution cache and in the in-progress path of that resolution.
C17_NeverCachedOnPath ==
    \A t \in Handlers : threads[t].op = "summary" => CachedOnPath(t) = {}

\* C17 amended: under sequential use a name is both cached and on the path
\* only between the commit of line 183 and the removal of line 184, and then
\* it is the name of the innermost call; in every other state of a
\* resolution, the cache test and the path check of lines 143-146 included,
\* no name is in both.
C17_CachedOnPathOnlyAtCommit ==
    \A t \in Handlers :
        threads[t].op = "summary"
            => CachedOnPath(t) =
                   (IF threads[t].pc = "184" THEN {Top(threads[t]).name} ELSE {})

C17_Witness ==
    /\ Resolving(1)
    /\ threads[1].pc = "184"
    /\ Len(threads[1].stack) >= 2
    /\ CachedOnPath(1) = {Top(threads[1]).name}

\* ----------------------------------------- claims on the concurrent runs
\* thread u takes a step of a createEntry or of a clear
Writes(u) ==
    /\ threads'[u] # threads[u]
    /\ threads[u].op \in {"create", "clear"} \/ threads'[u].op \in {"create", "clear"}

\* C13: while a getSummary is between its first and its last access to the
\* registry and the cache, no step of a createEntry or of a clear modifies
\* the registry or the cache.
C13_NoOverlap ==
    [][\A t, u \in Handlers :
           (threads[t].op = "summary" /\ threads'[t] = threads[t] /\ Writes(u))
               => (cookbook' = cookbook
                   /\ recipe_ingredient_cache' = recipe_ingredient_cache)]_vars

SummaryFailures == {MsgNotFound, MsgNotRecipe, MsgNoItem, MsgCircular}

\* C20: under every interleaving, whenever no request is in flight every
\* cached name is a recipe of the registry and every key of its cached map
\* an ingredient of the registry, and no getSummary ends in a failure other
\* than NotFound, WrongType, UnknownItem or CircularDependency.
C20_QuiescentCache ==
    /\ AllIdle
           => \A n \in DOMAIN recipe_ingredient_cache :
                  /\ IsRecipe(n)
                  /\ \A k \in DOMAIN recipe_ingredient_cache[n] : IsIngredient(k)
    /\ last.op = "summary"
           => \/ last.status = OK
              \/ last.status = BadRequest /\ last.content \in SummaryFailures

====
